---- MODULE Spec2Model ----
(***************************************************************************)
(* Model of client/src/pages/DashboardPage.jsx: the dashboard component's  *)
(* state (summary, error, hiddenCategories), its render pass with the      *)
(* useMemo chain, the passive effects (prune, chart sync) and the legend   *)
(* click handler.  React is the environment: a state setter schedules a    *)
(* render, a render commits and then runs the effects whose dependencies   *)
(* changed.  The hooks the source places below its early returns are taken *)
(* to run, in source order, from the first render that has a summary.      *)
(***************************************************************************)
EXTENDS Integers, Sequences, FiniteSets, TLC

(* ---------------------------- bounds ---------------------------------- *)
\* fetchSummary calls outstanding after mount: the mount effect issues one,
\* and a second when React.StrictMode re-runs mount effects in development
MaxFetch == 2
\* longest fixedExpenseCategoryTotals list in a payload
MaxCats == 2

(* ------------------------- JavaScript values --------------------------- *)
Undef == [t |-> "undefined", v |-> 0]
Null == [t |-> "null", v |-> 0]
Str == [t |-> "string", v |-> 0]
Num(n) == [t |-> "number", v |-> n]

\* typeof x === 'number'
IsNumber(x) == x.t = "number"

\* a ?? b
Nullish(a, b) == IF a.t = "undefined" \/ a.t = "null" THEN b ELSE a

\* Number(x) || 0 : a non-numeric string or undefined gives NaN, hence 0
NumberOrZero(x) == IF x.t = "number" THEN x.v ELSE 0

(* ----------------------------- payloads -------------------------------- *)
Labels == {"A", "B"}

RECURSIVE SeqToSet(_)
SeqToSet(s) == IF s = <<>> THEN {} ELSE {Head(s)} \cup SeqToSet(Tail(s))

LabelsOf(cats) == {cats[i].category : i \in 1..Len(cats)}

\* the server groups expenses by category: one item per label
CatListsOver(items) ==
  UNION {{s \in [1..n -> items] : \A i, j \in 1..n : i # j => s[i].category # s[j].category}
         : n \in 0..MaxCats}

\* the field is absent (<<>>) or carries a list (<<list>>)
CatFieldsOver(items) == {<<>>} \cup {<<c>> : c \in CatListsOver(items)}

\* payloads of the main specification: the category list, the total, the
\* income and the free-after-fixed figure vary
Items == {[category |-> "A", total |-> Num(100)], [category |-> "B", total |-> Num(50)]}
AllPayloads(items, aliasVals, activeVals, monthlyVals, freeVals) ==
  [fixedExpenseCategoryTotals : CatFieldsOver(items),
   effectiveFixedExpenseTotal : aliasVals,
   fixedExpenseTotal : aliasVals,
   fixedExpensesTotal : aliasVals,
   activeMonthlyNetIncome : activeVals,
   monthlyNetIncome : monthlyVals,
   freeAfterFixed : freeVals]

Payloads ==
  {p \in AllPayloads(Items, {Undef, Num(150)}, {Undef, Num(1000)},
                     {Undef}, {Undef, Num(200)}) :
     p.fixedExpenseTotal = Undef /\ p.fixedExpensesTotal = Undef}

\* payloads of the boundary specification: every combination of absent,
\* null, non-numeric and numeric fields, over three category fields
BoundaryCats == {<<>>, <<(<<>>)>>,
                 <<(<<[category |-> "A", total |-> Num(100)],
                      [category |-> "B", total |-> Str]>>)>>}
BoundaryPayloads ==
  [fixedExpenseCategoryTotals : BoundaryCats,
   effectiveFixedExpenseTotal : {Undef, Null, Num(150)},
   fixedExpenseTotal : {Undef, Null, Num(150)},
   fixedExpensesTotal : {Undef, Null, Num(150)},
   activeMonthlyNetIncome : {Undef, Null, Str, Num(1000)},
   monthlyNetIncome : {Undef, Null, Str, Num(900)},
   freeAfterFixed : {Undef, Null, Num(200)}]

(* ------------------------------ dates ---------------------------------- *)
IsLeap(y) == (y % 4 = 0 /\ y % 100 # 0) \/ y % 400 = 0

\* month m is 0-based, as in Date.getMonth()
DaysInMonth(y, m) ==
  IF m = 1 THEN (IF IsLeap(y) THEN 29 ELSE 28)
  ELSE IF m \in {3, 5, 8, 10} THEN 30 ELSE 31

Dates(years) ==
  {dt \in [y : years, m : 0..11, d : 1..31] : dt.d <= DaysInMonth(dt.y, dt.m)}

\* date.setMonth(monthValue): the year absorbs monthValue div 12 and a day
\* of month the target month does not have rolls into the following month
SetMonth(dt, monthValue) ==
  LET y1 == dt.y + (monthValue \div 12)
      m1 == monthValue % 12
  IN IF dt.d <= DaysInMonth(y1, m1)
       THEN [y |-> y1, m |-> m1, d |-> dt.d]
       ELSE [y |-> IF m1 = 11 THEN y1 + 1 ELSE y1,
             m |-> (m1 + 1) % 12,
             d |-> dt.d - DaysInMonth(y1, m1)]

\* toLocaleDateString('no-NO', {month: 'short', year: 'numeric'})
MonthYearLabel(dt) == <<dt.y, dt.m>>

(* ------------------- derivations of DashboardPage ---------------------- *)
\* summary.fixedExpenseCategoryTotals || []
FixedCategories(s) ==
  IF s.fixedExpenseCategoryTotals = <<>> THEN <<>> ELSE s.fixedExpenseCategoryTotals[1]

\* the updater of the prune effect:
\* current.filter((category) => fixedCategories.some((item) => item.category === category))
PruneHidden(current, fixedCategories) ==
  SelectSeq(current, LAMBDA category :
    \E i \in 1..Len(fixedCategories) : fixedCategories[i].category = category)

\* new Set(hiddenCategories)
HiddenCategorySet(hidden) == SeqToSet(hidden)

\* fixedCategories.filter((item) => !hiddenCategorySet.has(item.category))
VisibleCategoryTotals(fixedCategories, hiddenSet) ==
  SelectSeq(fixedCategories, LAMBDA item : item.category \notin hiddenSet)

\* the last alias is forgotten
DefaultFixedTotalTwoAliases(s) ==
  Nullish(s.effectiveFixedExpenseTotal, Nullish(s.fixedExpenseTotal, Num(0)))

\* effectiveFixedExpenseTotal ?? fixedExpenseTotal ?? fixedExpensesTotal ?? 0
DefaultFixedTotal(s) ==
  Nullish(s.effectiveFixedExpenseTotal,
          Nullish(s.fixedExpenseTotal, Nullish(s.fixedExpensesTotal, Num(0))))

\* visible.reduce((sum, item) => sum + (Number(item.total) || 0), 0)
RECURSIVE ReduceTotals(_, _)
ReduceTotals(items, sum) ==
  IF items = <<>> THEN sum
  ELSE ReduceTotals(Tail(items), sum + NumberOrZero(Head(items).total))

\* the default is taken when nothing is visible
VisibleFixedTotalByVisible(length, visible, defaultFixedTotal) ==
  IF Len(visible) = 0 THEN defaultFixedTotal ELSE Num(ReduceTotals(visible, 0))

VisibleFixedTotal(length, visible, defaultFixedTotal) ==
  IF length = 0 THEN defaultFixedTotal ELSE Num(ReduceTotals(visible, 0))

\* ?? in place of the typeof tests
ActiveMonthlyNetIncomeNullish(s) ==
  Nullish(s.activeMonthlyNetIncome, Nullish(s.monthlyNetIncome, Null))

ActiveMonthlyNetIncome(s) ==
  IF IsNumber(s.activeMonthlyNetIncome) THEN s.activeMonthlyNetIncome
  ELSE IF IsNumber(s.monthlyNetIncome) THEN s.monthlyNetIncome
  ELSE Null

\* an unknown income counts as 0
VisibleFreeAfterFixedZeroIncome(length, income, freeAfterFixed, visibleFixedTotal) ==
  IF length = 0 THEN Nullish(freeAfterFixed, Num(0))
  ELSE Num(NumberOrZero(income) - visibleFixedTotal.v)

\* the test for an empty category list is missing
VisibleFreeAfterFixedNoEmptyTest(length, income, freeAfterFixed, visibleFixedTotal) ==
  IF IsNumber(income) THEN Num(income.v - NumberOrZero(visibleFixedTotal))
  ELSE Nullish(freeAfterFixed, Num(0))

VisibleFreeAfterFixed(length, income, freeAfterFixed, visibleFixedTotal) ==
  IF length = 0 THEN Nullish(freeAfterFixed, Num(0))
  ELSE IF IsNumber(income) THEN Num(income.v - visibleFixedTotal.v)
  ELSE Nullish(freeAfterFixed, Num(0))

\* a toggle that never removes a label
ToggleHiddenAppendOnly(current, label) == Append(current, label)

\* the updater of handleLegendClick
ToggleHidden(current, label) ==
  IF label \in SeqToSet(current)
    THEN SelectSeq(current, LAMBDA item : item # label)
    ELSE Append(current, label)

\* <<n, m>> is "n/m kategorier", <<m>> is "m kategorier", <<>> is ''
CategoryBadgeText(fixedCategories, hidden, visible) ==
  IF Len(fixedCategories) > 0
    THEN IF Len(hidden) > 0 THEN <<Len(visible), Len(fixedCategories)>>
         ELSE <<Len(fixedCategories)>>
    ELSE <<>>

\* Array.from({length: 12}, (_, index) => ...), index 0..11 is position 1..12
MonthlyForecast(today, fixed, free) ==
  [index \in 1..12 |->
     [label |-> MonthYearLabel(SetMonth(today, today.m + (index - 1))),
      fixedCosts |-> fixed,
      availableAfterFixed |-> free]]

\* chart.toggleDataVisibility(index)
ToggleDataVisibility(hiddenIndices, index) ==
  IF index \in hiddenIndices THEN hiddenIndices \ {index} ELSE hiddenIndices \cup {index}

\* the comparison is inverted: a slice already in step is toggled
RECURSIVE SyncVisibilityInverted(_, _, _, _)
SyncVisibilityInverted(labels, index, hiddenSet, hiddenIndices) ==
  IF index > Len(labels) THEN hiddenIndices
  ELSE LET shouldHide == labels[index] \in hiddenSet
           isVisible == index \notin hiddenIndices
       IN SyncVisibilityInverted(labels, index + 1, hiddenSet,
            IF shouldHide # isVisible
              THEN ToggleDataVisibility(hiddenIndices, index)
              ELSE hiddenIndices)

\* the forEach of the chart-sync effect, index 1..Len(labels)
RECURSIVE SyncVisibility(_, _, _, _)
SyncVisibility(labels, index, hiddenSet, hiddenIndices) ==
  IF index > Len(labels) THEN hiddenIndices
  ELSE LET shouldHide == labels[index] \in hiddenSet
           isVisible == index \notin hiddenIndices
       IN SyncVisibility(labels, index + 1, hiddenSet,
            IF shouldHide = isVisible
              THEN ToggleDataVisibility(hiddenIndices, index)
              ELSE hiddenIndices)

(* ------------------------------ state ---------------------------------- *)
VARIABLES
  summary,           \* useState(null): <<>> is null, <<payload>> a loaded summary
  error,             \* useState('')
  hiddenCategories,  \* useState([])
  pendingFetch,      \* getSummary() promises not yet settled
  needRender,        \* a state setter has scheduled a render
  pc,                \* "idle", or "effects" between a commit and its passive effects
  summaryNew,        \* the summary object differs from the one the last render saw
  hiddenNew,         \* the hiddenCategories array differs from the one the last render saw
  hooksMounted,      \* the hooks below the early returns have run once
  memo,              \* the values and dependencies the useMemo hooks hold
  view,              \* what the last render returned
  scheduled,         \* the effects the last commit scheduled
  chart,             \* the doughnut chart behind doughnutRef
  today,             \* the date new Date() gives
  toggled,           \* history: the label clicked since the last summary or prune, n times
                     \* in a row, and the hidden list before those clicks
  \* SettingsPage
  ownerInputs,        \* useState({}): the entries [name, value] in insertion order
  ownersFromExpenses, \* useState([])
  ownersLoading,      \* useState(false)
  ownerStatus,        \* useState('')
  ownerError,         \* useState('')
  newOwnerName,       \* useState('')
  isSavingOwners,     \* useState(false)
  defaultOwner,       \* useState('')
  settingsPending,    \* the getSettings() promise of the mount effect is not settled
  ownersPending,      \* the getFixedExpenses() promise of the mount effect is not settled
  request             \* <<>>, or <<ownerProfiles>> of the updateSettings call in flight

dashboardVars == <<summary, error, hiddenCategories, pendingFetch, needRender, pc, summaryNew,
                   hiddenNew, hooksMounted, memo, view, scheduled, chart, today, toggled>>

settingsVars == <<ownerInputs, ownersFromExpenses, ownersLoading, ownerStatus, ownerError,
                  newOwnerName, isSavingOwners, defaultOwner, settingsPending, ownersPending,
                  request>>

vars == <<summary, error, hiddenCategories, pendingFetch, needRender, pc, summaryNew,
          hiddenNew, hooksMounted, memo, view, scheduled, chart, today, toggled,
          ownerInputs, ownersFromExpenses, ownersLoading, ownerStatus, ownerError,
          newOwnerName, isSavingOwners, defaultOwner, settingsPending, ownersPending,
          request>>

\* ownerError: '' or a message
NoError == [kind |-> "", name |-> ""]
Message(kind, name) == [kind |-> kind, name |-> name]

\* SettingsPage after its mount effects have started both fetches
InitSettings ==
  /\ ownerInputs = <<>>
  /\ ownersFromExpenses = <<>>
  /\ ownersLoading = TRUE
  /\ ownerStatus = ""
  /\ ownerError = NoError
  /\ newOwnerName = ""
  /\ isSavingOwners = FALSE
  /\ defaultOwner = ""
  /\ settingsPending = TRUE
  /\ ownersPending = TRUE
  /\ request = <<>>

NoChart == [exists |-> FALSE, labels |-> <<>>, hiddenIndices |-> {}]
NoEffects == [prune |-> FALSE, sync |-> FALSE]
NoMemo ==
  [hiddenCategorySet |-> {},
   visibleCategoryTotals |-> <<>>,
   visibleFixedTotal |-> Undef,
   fixedDeps |-> <<0, Undef>>,
   visibleFreeAfterFixed |-> Undef,
   freeDeps |-> <<Undef, 0, Undef, Undef>>,
   monthlyForecast |-> <<>>,
   forecastDeps |-> <<Undef, Undef>>,
   reused |-> {}]
NoToggle == [label |-> "", before |-> <<>>, n |-> 0]
Loading == [kind |-> "loading", categoryBadgeText |-> <<>>, note |-> FALSE]
ErrorView == [kind |-> "error", categoryBadgeText |-> <<>>, note |-> FALSE]

\* the date the dashboard is opened on outside the calendar specification
SessionDate == [y |-> 2024, m |-> 0, d |-> 15]

InitComponent ==
  /\ summary = <<>>
  /\ error = ""
  /\ hiddenCategories = <<>>
  /\ pendingFetch = MaxFetch
  /\ needRender = FALSE
  /\ pc = "idle"
  /\ summaryNew = FALSE
  /\ hiddenNew = FALSE
  /\ hooksMounted = FALSE
  /\ memo = NoMemo
  /\ view = Loading
  /\ scheduled = NoEffects
  /\ chart = NoChart
  /\ toggled = NoToggle
  /\ InitSettings

Init == InitComponent /\ today = SessionDate

(* ----------------------------- actions --------------------------------- *)
\* fetchSummary: await api.getSummary() resolved, setSummary(data)
SummaryArrives(data) ==
  /\ pendingFetch > 0
  /\ pc = "idle"
  /\ pendingFetch' = pendingFetch - 1
  /\ summary' = <<data>>
  /\ summaryNew' = TRUE
  /\ needRender' = TRUE
  /\ toggled' = NoToggle
  /\ UNCHANGED <<error, hiddenCategories, pc, hiddenNew, hooksMounted, memo, view,
                 scheduled, chart, today>>
  /\ UNCHANGED settingsVars

\* fetchSummary: api.getSummary() rejected, setError(err.message)
FetchFails ==
  /\ pendingFetch > 0
  /\ pc = "idle"
  /\ pendingFetch' = pendingFetch - 1
  /\ error' = "err"
  /\ needRender' = (needRender \/ error # "err")
  /\ UNCHANGED <<summary, hiddenCategories, pc, summaryNew, hiddenNew, hooksMounted,
                 memo, view, scheduled, chart, today, toggled>>
  /\ UNCHANGED settingsVars

\* dependency comparisons of the hooks
\* [fixedCategories]: the array of a new summary, or the fresh [] of `|| []`
FixedCategoriesChanged(s) ==
  ~hooksMounted \/ summaryNew \/ s.fixedExpenseCategoryTotals = <<>>
\* [hiddenCategories]
HiddenSetChanged == ~hooksMounted \/ hiddenNew
\* hiddenCategorySet is missing from the dependencies
VisibleChangedCategoriesOnly(catsChanged, setChanged) == catsChanged

\* [fixedCategories, hiddenCategorySet]
VisibleChanged(catsChanged, setChanged) == catsChanged \/ setChanged
\* [visibleCategoryTotals, fixedCategories.length, defaultFixedTotal]
FixedTotalChanged(visibleChanged, deps) ==
  ~hooksMounted \/ visibleChanged \/ deps # memo.fixedDeps
\* visibleFixedTotal is missing from the dependencies
FreeChangedWithoutFixedTotal(deps) ==
  ~hooksMounted \/ SubSeq(deps, 1, 3) # SubSeq(memo.freeDeps, 1, 3)

\* [activeMonthlyNetIncome, fixedCategories.length, summary.freeAfterFixed, visibleFixedTotal]
FreeChanged(deps) == ~hooksMounted \/ deps # memo.freeDeps
\* visibleFreeAfterFixed is missing from the dependencies
ForecastChangedFixedOnly(deps) == ~hooksMounted \/ deps[1] # memo.forecastDeps[1]

\* [visibleFixedTotal, visibleFreeAfterFixed]
ForecastChanged(deps) == ~hooksMounted \/ deps # memo.forecastDeps

\* one render pass of DashboardPage and its commit
Render ==
  /\ needRender
  /\ pc = "idle"
  /\ needRender' = FALSE
  /\ IF error # ""
       THEN /\ view' = ErrorView
            /\ chart' = NoChart
            /\ UNCHANGED <<pc, summaryNew, hiddenNew, hooksMounted, memo, scheduled>>
       ELSE LET s == summary[1]
                fixedCategories == FixedCategories(s)
                catsChanged == FixedCategoriesChanged(s)
                setChanged == HiddenSetChanged
                hiddenCategorySet ==
                  IF setChanged THEN HiddenCategorySet(hiddenCategories)
                  ELSE memo.hiddenCategorySet
                visibleChanged == VisibleChanged(catsChanged, setChanged)
                visibleCategoryTotals ==
                  IF visibleChanged
                    THEN VisibleCategoryTotals(fixedCategories, hiddenCategorySet)
                    ELSE memo.visibleCategoryTotals
                defaultFixedTotal == DefaultFixedTotal(s)
                fixedDeps == <<Len(fixedCategories), defaultFixedTotal>>
                visibleFixedTotal ==
                  IF FixedTotalChanged(visibleChanged, fixedDeps)
                    THEN VisibleFixedTotal(Len(fixedCategories), visibleCategoryTotals,
                                           defaultFixedTotal)
                    ELSE memo.visibleFixedTotal
                activeMonthlyNetIncome == ActiveMonthlyNetIncome(s)
                freeDeps == <<activeMonthlyNetIncome, Len(fixedCategories),
                              s.freeAfterFixed, visibleFixedTotal>>
                visibleFreeAfterFixed ==
                  IF FreeChanged(freeDeps)
                    THEN VisibleFreeAfterFixed(Len(fixedCategories), activeMonthlyNetIncome,
                                               s.freeAfterFixed, visibleFixedTotal)
                    ELSE memo.visibleFreeAfterFixed
                forecastDeps == <<visibleFixedTotal, visibleFreeAfterFixed>>
                monthlyForecast ==
                  IF ForecastChanged(forecastDeps)
                    THEN MonthlyForecast(today, visibleFixedTotal, visibleFreeAfterFixed)
                    ELSE memo.monthlyForecast
            IN /\ memo' = [hiddenCategorySet |-> hiddenCategorySet,
                           visibleCategoryTotals |-> visibleCategoryTotals,
                           visibleFixedTotal |-> visibleFixedTotal,
                           fixedDeps |-> fixedDeps,
                           visibleFreeAfterFixed |-> visibleFreeAfterFixed,
                           freeDeps |-> freeDeps,
                           monthlyForecast |-> monthlyForecast,
                           forecastDeps |-> forecastDeps,
                           \* history: the hooks that returned their cached value
                           reused |->
                             {h \in {"hiddenCategorySet"} : ~setChanged}
                             \cup {h \in {"visibleCategoryTotals"} : ~visibleChanged}
                             \cup {h \in {"visibleFixedTotal"} :
                                     ~FixedTotalChanged(visibleChanged, fixedDeps)}
                             \cup {h \in {"visibleFreeAfterFixed"} : ~FreeChanged(freeDeps)}
                             \cup {h \in {"monthlyForecast"} :
                                     ~ForecastChanged(forecastDeps)}]
               /\ view' = [kind |-> "dashboard",
                           categoryBadgeText |->
                             CategoryBadgeText(fixedCategories, hiddenCategories,
                                               visibleCategoryTotals),
                           note |-> Len(hiddenCategories) > 0]
               \* <Doughnut> is rendered only when doughnutData is not null
               /\ chart' = IF Len(fixedCategories) > 0
                             THEN [exists |-> TRUE,
                                   labels |-> [i \in 1..Len(fixedCategories) |->
                                                 fixedCategories[i].category],
                                   hiddenIndices |-> chart.hiddenIndices]
                             ELSE NoChart
               /\ scheduled' = [prune |-> catsChanged, sync |-> setChanged \/ catsChanged]
               /\ pc' = "effects"
               /\ summaryNew' = FALSE
               /\ hiddenNew' = FALSE
               /\ hooksMounted' = TRUE
  /\ UNCHANGED <<summary, error, hiddenCategories, pendingFetch, today, toggled>>
  /\ UNCHANGED settingsVars

\* the passive effects of the last commit, in source order; React runs them
\* before the next render, with the values that commit's render captured
Effects ==
  /\ pc = "effects"
  /\ pc' = "idle"
  /\ scheduled' = NoEffects
  /\ LET fixedCategories == FixedCategories(summary[1])
     IN hiddenCategories' =
          IF scheduled.prune THEN PruneHidden(hiddenCategories, fixedCategories)
          ELSE hiddenCategories
  /\ hiddenNew' = (hiddenNew \/ scheduled.prune)
  /\ toggled' = IF scheduled.prune THEN NoToggle ELSE toggled
  /\ needRender' = (needRender \/ scheduled.prune)
  /\ chart' = IF scheduled.sync /\ chart.exists
                THEN [chart EXCEPT !.hiddenIndices =
                        SyncVisibility(chart.labels, 1, memo.hiddenCategorySet, @)]
                ELSE chart
  /\ UNCHANGED <<summary, error, pendingFetch, summaryNew, hooksMounted, memo, view, today>>
  /\ UNCHANGED settingsVars

\* handleLegendClick(event, legendItem, legend) with legendItem.index = index - 1
LegendClick(index) ==
  /\ pc = "idle"
  /\ chart.exists
  /\ index \in 1..Len(chart.labels)
  /\ LET label == chart.labels[index]
     IN hiddenCategories' = ToggleHidden(hiddenCategories, label)
  /\ hiddenNew' = TRUE
  /\ needRender' = TRUE
  /\ chart' = [chart EXCEPT !.hiddenIndices = ToggleDataVisibility(@, index)]
  /\ toggled' = IF toggled.n = 1 /\ toggled.label = chart.labels[index]
                  THEN [toggled EXCEPT !.n = 2]
                  ELSE [label |-> chart.labels[index], before |-> hiddenCategories, n |-> 1]
  /\ UNCHANGED <<summary, error, pendingFetch, pc, summaryNew, hooksMounted, memo, view,
                 scheduled, today>>
  /\ UNCHANGED settingsVars

Next ==
  \/ \E data \in Payloads : SummaryArrives(data)
  \/ FetchFails
  \/ Render
  \/ Effects
  \/ \E index \in 1..MaxCats : LegendClick(index)

Spec == Init /\ [][Next]_vars

\* the boundary specification: one fetch, as a production mount issues, whose
\* payload ranges over BoundaryPayloads
InitBoundary ==
  /\ summary = <<>>
  /\ error = ""
  /\ hiddenCategories = <<>>
  /\ pendingFetch = 1
  /\ needRender = FALSE
  /\ pc = "idle"
  /\ summaryNew = FALSE
  /\ hiddenNew = FALSE
  /\ hooksMounted = FALSE
  /\ memo = NoMemo
  /\ view = Loading
  /\ scheduled = NoEffects
  /\ chart = NoChart
  /\ toggled = NoToggle
  /\ InitSettings
  /\ today = SessionDate

NextBoundary ==
  \/ \E data \in BoundaryPayloads : SummaryArrives(data)
  \/ FetchFails
  \/ Render
  \/ Effects
  \/ \E index \in 1..MaxCats : LegendClick(index)

SpecBoundary == InitBoundary /\ [][NextBoundary]_vars

\* the calendar specification: the dashboard is opened on any day of a
\* non-leap and a leap year and renders one summary
CalendarYears == {2023, 2024}
CalendarPayloads ==
  {p \in Payloads : /\ p.fixedExpenseCategoryTotals = <<(<<[category |-> "A", total |-> Num(100)]>>)>>
                    /\ p.effectiveFixedExpenseTotal = Undef
                    /\ p.monthlyNetIncome = Undef
                    /\ p.freeAfterFixed = Undef}

InitCalendar ==
  /\ summary = <<>>
  /\ error = ""
  /\ hiddenCategories = <<>>
  /\ pendingFetch = 1
  /\ needRender = FALSE
  /\ pc = "idle"
  /\ summaryNew = FALSE
  /\ hiddenNew = FALSE
  /\ hooksMounted = FALSE
  /\ memo = NoMemo
  /\ view = Loading
  /\ scheduled = NoEffects
  /\ chart = NoChart
  /\ toggled = NoToggle
  /\ InitSettings
  /\ today \in Dates(CalendarYears)

NextCalendar ==
  \/ \E data \in CalendarPayloads : SummaryArrives(data)
  \/ FetchFails
  \/ Render
  \/ Effects
  \/ \E index \in 1..MaxCats : LegendClick(index)

SpecCalendar == InitCalendar /\ [][NextCalendar]_vars

(* --------------------------- SettingsPage ------------------------------ *)
OwnerNameSet == {"Kari", "Ola"}
\* what an income field can hold: typed text, or String(...) of a stored value
IncomeTexts == {"", " ", "0", "1200", "-5", "abc", "Infinity"}
\* what the name field can hold
NameTexts == {"", " ", " Ola "}

\* name.trim()
Trim(text) ==
  CASE text = " " -> ""
    [] text = " Ola " -> "Ola"
    [] OTHER -> text

\* Number(value): blank text is 0, text that is no numeral is NaN
NumberOf(text) ==
  CASE text \in {"", " ", "0"} -> [kind |-> "finite", v |-> 0]
    [] text = "1200" -> [kind |-> "finite", v |-> 1200]
    [] text = "-5" -> [kind |-> "finite", v |-> 0 - 5]
    [] text = "Infinity" -> [kind |-> "infinity", v |-> 0]
    [] OTHER -> [kind |-> "nan", v |-> 0]

\* String(profile.monthlyNetIncome ?? '')
StringOf(x) ==
  IF x.t \in {"undefined", "null"} THEN ""
  ELSE CASE x.v = 0 -> "0"
         [] x.v = 1200 -> "1200"
         [] x.v = 0 - 5 -> "-5"
         [] OTHER -> "abc"

\* the test for a negative amount is missing
IsRejectedNonFiniteOnly(numericValue) == numericValue.kind # "finite"

\* !Number.isFinite(numericValue) || numericValue < 0
IsRejected(numericValue) == numericValue.kind # "finite" \/ numericValue.v < 0

HasOwner(inputs, name) == \E i \in 1..Len(inputs) : inputs[i].name = name

\* { ...current, [name]: value }: an existing key keeps its place
PutOwner(inputs, name, value) ==
  IF HasOwner(inputs, name)
    THEN [i \in 1..Len(inputs) |->
            IF inputs[i].name = name THEN [name |-> name, value |-> value] ELSE inputs[i]]
    ELSE Append(inputs, [name |-> name, value |-> value])

\* the forEach that turns ownerProfiles into the inputs object
RECURSIVE ProfilesToInputs(_, _)
ProfilesToInputs(profiles, acc) ==
  IF profiles = <<>> THEN acc
  ELSE ProfilesToInputs(Tail(profiles),
         IF Head(profiles).name # ""
           THEN PutOwner(acc, Head(profiles).name, StringOf(Head(profiles).monthlyNetIncome))
           ELSE acc)

\* the ownerNames memo, as a set
OwnerNames ==
  {n \in SeqToSet(ownersFromExpenses) : Trim(n) # ""}
  \cup {ownerInputs[i].name : i \in {j \in 1..Len(ownerInputs) : Trim(ownerInputs[j].name) # ""}}
  \cup {Trim(n) : n \in {d \in {defaultOwner} : Trim(d) # ""}}

\* Object.entries(ownerInputs) after the two filters
EntriesToSave(inputs) ==
  SelectSeq(inputs, LAMBDA e : Trim(e.name) # "" /\ e.value # "")

\* the entries whose map callback throws
RejectedEntries(entries) ==
  {i \in 1..Len(entries) : IsRejected(NumberOf(entries[i].value))}

\* the array the map callback returns when nothing throws
OwnerProfilesPayload(entries) ==
  [i \in 1..Len(entries) |->
     [name |-> Trim(entries[i].name), monthlyNetIncome |-> NumberOf(entries[i].value)]]

\* what the settings service answers to getSettings
SettingsReplies ==
  [ownerProfiles : {<<>>,
                    <<[name |-> "Kari", monthlyNetIncome |-> Num(1200)]>>,
                    <<[name |-> "Kari", monthlyNetIncome |-> Num(1200)],
                      [name |-> "Ola", monthlyNetIncome |-> Null]>>},
   defaultFixedExpensesOwner : {"", "Kari"}]

\* what the service answers to updateSettings: the saved profiles, or no
\* ownerProfiles field
UpdateReplies(sent) ==
  IF sent = <<>> THEN {}
  ELSE {<<>>,
        [i \in 1..Len(sent[1]) |->
           [name |-> sent[1][i].name,
            monthlyNetIncome |-> Num(sent[1][i].monthlyNetIncome.v)]]}

\* fetchSettings resolved
SettingsArrive(data) ==
  /\ settingsPending
  /\ settingsPending' = FALSE
  /\ ownerInputs' = ProfilesToInputs(data.ownerProfiles, <<>>)
  /\ defaultOwner' = data.defaultFixedExpensesOwner
  /\ UNCHANGED <<ownersFromExpenses, ownersLoading, ownerStatus, ownerError, newOwnerName,
                 isSavingOwners, ownersPending, request>>
  /\ UNCHANGED dashboardVars

\* fetchSettings rejected
SettingsFail ==
  /\ settingsPending
  /\ settingsPending' = FALSE
  /\ ownerError' = Message("fetch-settings", "")
  /\ UNCHANGED <<ownerInputs, ownersFromExpenses, ownersLoading, ownerStatus, newOwnerName,
                 isSavingOwners, defaultOwner, ownersPending, request>>
  /\ UNCHANGED dashboardVars

\* fetchOwners resolved
OwnersArrive(owners) ==
  /\ ownersPending
  /\ ownersPending' = FALSE
  /\ ownersFromExpenses' = owners
  /\ ownersLoading' = FALSE
  /\ UNCHANGED <<ownerInputs, ownerStatus, ownerError, newOwnerName, isSavingOwners,
                 defaultOwner, settingsPending, request>>
  /\ UNCHANGED dashboardVars

\* fetchOwners rejected: setOwnerError((prev) => prev || ...)
OwnersFail ==
  /\ ownersPending
  /\ ownersPending' = FALSE
  /\ ownerError' = IF ownerError # NoError THEN ownerError ELSE Message("fetch-owners", "")
  /\ ownersLoading' = FALSE
  /\ UNCHANGED <<ownerInputs, ownersFromExpenses, ownerStatus, newOwnerName, isSavingOwners,
                 defaultOwner, settingsPending, request>>
  /\ UNCHANGED dashboardVars

\* handleOwnerIncomeChange(name, value), from the input of a listed name
OwnerIncomeChange(name, value) ==
  /\ name \in OwnerNames
  /\ ownerInputs' = PutOwner(ownerInputs, name, value)
  /\ UNCHANGED <<ownersFromExpenses, ownersLoading, ownerStatus, ownerError, newOwnerName,
                 isSavingOwners, defaultOwner, settingsPending, ownersPending, request>>
  /\ UNCHANGED dashboardVars

\* onChange of the name field
TypeOwnerName(text) ==
  /\ newOwnerName' = text
  /\ UNCHANGED <<ownerInputs, ownersFromExpenses, ownersLoading, ownerStatus, ownerError,
                 isSavingOwners, defaultOwner, settingsPending, ownersPending, request>>
  /\ UNCHANGED dashboardVars

\* handleAddOwner
AddOwner ==
  /\ ownerStatus' = ""
  /\ LET trimmed == Trim(newOwnerName)
     IN IF trimmed = ""
          THEN /\ ownerError' = Message("name-required", "")
               /\ UNCHANGED <<ownerInputs, newOwnerName>>
          ELSE /\ ownerError' = NoError
               /\ ownerInputs' = IF HasOwner(ownerInputs, trimmed) THEN ownerInputs
                                 ELSE Append(ownerInputs, [name |-> trimmed, value |-> ""])
               /\ newOwnerName' = ""
  /\ UNCHANGED <<ownersFromExpenses, ownersLoading, isSavingOwners, defaultOwner,
                 settingsPending, ownersPending, request>>
  /\ UNCHANGED dashboardVars

\* handleSaveOwners up to its await: the button is disabled while saving
SaveOwners ==
  /\ ~isSavingOwners
  /\ ownerStatus' = ""
  /\ LET entries == EntriesToSave(ownerInputs)
         rejected == RejectedEntries(entries)
     IN IF rejected # {}
          THEN \* the map callback throws at the first such entry: catch, finally
               LET first == CHOOSE i \in rejected : \A j \in rejected : i <= j
               IN /\ ownerError' = Message("validation", Trim(entries[first].name))
                  /\ isSavingOwners' = FALSE
                  /\ request' = request
          ELSE /\ ownerError' = NoError
               /\ isSavingOwners' = TRUE
               /\ request' = <<OwnerProfilesPayload(entries)>>
  /\ UNCHANGED <<ownerInputs, ownersFromExpenses, ownersLoading, newOwnerName, defaultOwner,
                 settingsPending, ownersPending>>
  /\ UNCHANGED dashboardVars

\* handleSaveOwners after its await: api.updateSettings resolved
SaveResolves(updated) ==
  /\ request # <<>>
  /\ request' = <<>>
  /\ ownerInputs' = ProfilesToInputs(updated, <<>>)
  /\ ownerStatus' = "Lagret personlige inntekter."
  /\ isSavingOwners' = FALSE
  /\ UNCHANGED <<ownersFromExpenses, ownersLoading, ownerError, newOwnerName, defaultOwner,
                 settingsPending, ownersPending>>
  /\ UNCHANGED dashboardVars

\* handleSaveOwners after its await: api.updateSettings rejected
SaveRejects ==
  /\ request # <<>>
  /\ request' = <<>>
  /\ ownerError' = Message("request", "")
  /\ isSavingOwners' = FALSE
  /\ UNCHANGED <<ownerInputs, ownersFromExpenses, ownersLoading, ownerStatus, newOwnerName,
                 defaultOwner, settingsPending, ownersPending>>
  /\ UNCHANGED dashboardVars

NextSettings ==
  \/ \E data \in SettingsReplies : SettingsArrive(data)
  \/ SettingsFail
  \/ \E owners \in {<<>>, <<"Kari", "Ola">>} : OwnersArrive(owners)
  \/ OwnersFail
  \/ \E name \in OwnerNameSet, value \in IncomeTexts : OwnerIncomeChange(name, value)
  \/ \E text \in NameTexts : TypeOwnerName(text)
  \/ AddOwner
  \/ SaveOwners
  \/ \E updated \in UpdateReplies(request) : SaveResolves(updated)
  \/ SaveRejects

SpecSettings == Init /\ [][NextSettings]_vars

(* ------------------------------ claims --------------------------------- *)
\* the last render showed the dashboard and no state setter has run since:
\* the memoized values are the ones on screen
Rendered == view.kind = "dashboard" /\ ~needRender

CurrentCategories == FixedCategories(summary[1])

\* the sum of the totals of the categories not in a set of labels
RECURSIVE SumOfTotals(_, _)
SumOfTotals(cats, indices) ==
  IF indices = {} THEN 0
  ELSE LET i == CHOOSE j \in indices : TRUE
       IN cats[i].total.v + SumOfTotals(cats, indices \ {i})

ShownIndices(cats, hiddenSet) == {i \in 1..Len(cats) : cats[i].category \notin hiddenSet}

C2_ToggleTwiceRestores ==
  /\ \A label \in Labels :
       LET once == ToggleHidden(hiddenCategories, label)
           twice == ToggleHidden(once, label)
       IN /\ \A other \in Labels :
               (other \in SeqToSet(once)) =
                 (IF other = label THEN other \notin SeqToSet(hiddenCategories)
                  ELSE other \in SeqToSet(hiddenCategories))
          /\ SeqToSet(twice) = SeqToSet(hiddenCategories)
          /\ summary # <<>> =>
               VisibleCategoryTotals(CurrentCategories, HiddenCategorySet(twice)) =
                 VisibleCategoryTotals(CurrentCategories, HiddenCategorySet(hiddenCategories))
  /\ toggled.n = 1 =>
       \A other \in Labels :
         (other \in SeqToSet(hiddenCategories)) =
           (IF other = toggled.label THEN other \notin SeqToSet(toggled.before)
            ELSE other \in SeqToSet(toggled.before))
  /\ toggled.n = 2 =>
       /\ SeqToSet(hiddenCategories) = SeqToSet(toggled.before)
       /\ VisibleCategoryTotals(CurrentCategories, HiddenCategorySet(hiddenCategories)) =
            VisibleCategoryTotals(CurrentCategories, HiddenCategorySet(toggled.before))
       /\ Rendered => memo.visibleCategoryTotals =
            VisibleCategoryTotals(CurrentCategories, HiddenCategorySet(toggled.before))

\* with A and B hidden, A was shown and hidden again: the hidden list is in
\* another order, and the result is on screen
C2_Witness ==
  /\ toggled.n = 2
  /\ toggled.before = <<"A", "B">>
  /\ hiddenCategories = <<"B", "A">>
  /\ Rendered
  /\ memo.visibleCategoryTotals = <<>>

\* C3: visibleFixedTotal is the supplied default total when categoryTotals is
\* empty, whatever the hidden list holds, and otherwise the sum of the totals
\* of exactly the categories that are not hidden
C3_VisibleFixedTotal ==
  Rendered =>
    IF Len(CurrentCategories) = 0
      THEN memo.visibleFixedTotal = DefaultFixedTotal(summary[1])
      ELSE memo.visibleFixedTotal =
             Num(SumOfTotals(CurrentCategories,
                   ShownIndices(CurrentCategories, SeqToSet(hiddenCategories))))

\* categories [{A,100},{B,50}] with a default total supplied, A and B hidden:
\* the total shown is 0, not the default
C3_Witness ==
  /\ Rendered
  /\ Len(CurrentCategories) = 2
  /\ SeqToSet(hiddenCategories) = {"A", "B"}
  /\ DefaultFixedTotal(summary[1]) = Num(150)
  /\ memo.visibleFixedTotal = Num(0)

\* freeAfterFixed as the payload supplies it, 0 when it supplies none
SuppliedFreeAfterFixed ==
  IF summary[1].freeAfterFixed.t \in {"undefined", "null"} THEN Num(0)
  ELSE summary[1].freeAfterFixed

\* C4: with categories present and the income known, the two displayed
\* figures add up to the income
C4_FreePlusFixedIsIncome ==
  (Rendered /\ Len(CurrentCategories) > 0 /\ IsNumber(ActiveMonthlyNetIncome(summary[1])))
    => /\ IsNumber(memo.visibleFreeAfterFixed)
       /\ IsNumber(memo.visibleFixedTotal)
       /\ memo.visibleFreeAfterFixed.v + memo.visibleFixedTotal.v =
            ActiveMonthlyNetIncome(summary[1]).v

\* income 1000, categories [{A,100},{B,50}], A hidden by a legend click:
\* 50 and 950 are shown
C4_Witness ==
  /\ Rendered
  /\ toggled.n = 1
  /\ Len(CurrentCategories) = 2
  /\ hiddenCategories = <<"A">>
  /\ ActiveMonthlyNetIncome(summary[1]) = Num(1000)
  /\ memo.visibleFixedTotal = Num(50)
  /\ memo.visibleFreeAfterFixed = Num(950)

\* C5: with categories present and the income unknown, visibleFreeAfterFixed
\* is the supplied freeAfterFixed after every toggle
C5_UnknownIncomePassThrough ==
  (Rendered /\ Len(CurrentCategories) > 0 /\ ~IsNumber(ActiveMonthlyNetIncome(summary[1])))
    => memo.visibleFreeAfterFixed = SuppliedFreeAfterFixed

\* income unknown, freeAfterFixed 200, A hidden by a legend click: the fixed
\* total changed to 50 and 200 is still shown
C5_Witness ==
  /\ Rendered
  /\ toggled.n = 1
  /\ Len(CurrentCategories) = 2
  /\ hiddenCategories = <<"A">>
  /\ ~IsNumber(ActiveMonthlyNetIncome(summary[1]))
  /\ summary[1].freeAfterFixed = Num(200)
  /\ memo.visibleFixedTotal = Num(50)
  /\ memo.visibleFreeAfterFixed = Num(200)

\* C6: with no categories, visibleFreeAfterFixed is the supplied
\* freeAfterFixed, whether or not the income is known and whatever the hidden
\* list holds
C6_EmptyCategoriesPassThrough ==
  (Rendered /\ Len(CurrentCategories) = 0)
    => memo.visibleFreeAfterFixed = SuppliedFreeAfterFixed

\* no categories, income 1000, default total 150, freeAfterFixed 200 and a
\* stale hidden label: 200 is shown, not 850
C6_Witness ==
  /\ Rendered
  /\ Len(CurrentCategories) = 0
  /\ hiddenCategories # <<>>
  /\ ActiveMonthlyNetIncome(summary[1]) = Num(1000)
  /\ DefaultFixedTotal(summary[1]) = Num(150)
  /\ summary[1].freeAfterFixed = Num(200)
  /\ memo.visibleFreeAfterFixed = Num(200)

\* C7: the income a render resolves is the override when that is a number,
\* else monthlyNetIncome when that is a number, else absent, and that income
\* is the one visibleFreeAfterFixed is computed from
C7_IncomeResolution ==
  Rendered =>
    LET s == summary[1]
        resolved == memo.freeDeps[1]
    IN /\ IF s.activeMonthlyNetIncome.t = "number" THEN resolved = s.activeMonthlyNetIncome
          ELSE IF s.monthlyNetIncome.t = "number" THEN resolved = s.monthlyNetIncome
          ELSE resolved = Null
       /\ (Len(CurrentCategories) > 0 /\ resolved.t = "number")
            => memo.visibleFreeAfterFixed = Num(resolved.v - memo.visibleFixedTotal.v)

\* a non-numeric override next to a numeric monthlyNetIncome: 900 is resolved
C7_Witness ==
  /\ Rendered
  /\ summary[1].activeMonthlyNetIncome = Str
  /\ summary[1].monthlyNetIncome = Num(900)
  /\ Len(CurrentCategories) > 0
  /\ memo.freeDeps[1] = Num(900)
  /\ memo.visibleFreeAfterFixed = Num(800)

\* C8: the forecast has 12 points and each carries the visibleFixedTotal and
\* the visibleFreeAfterFixed on screen
C8_ForecastReplicates ==
  Rendered =>
    /\ Len(memo.monthlyForecast) = 12
    /\ \A index \in 1..12 :
         /\ memo.monthlyForecast[index].fixedCosts = memo.visibleFixedTotal
         /\ memo.monthlyForecast[index].availableAfterFixed = memo.visibleFreeAfterFixed

\* after a legend click hid A, the last point carries 50 and 950
C8_Witness ==
  /\ Rendered
  /\ toggled.n = 1
  /\ hiddenCategories = <<"A">>
  /\ memo.visibleFixedTotal = Num(50)
  /\ memo.monthlyForecast[12].fixedCosts = Num(50)
  /\ memo.monthlyForecast[12].availableAfterFixed = Num(950)

\* C9: point i of the forecast is labelled with the calendar month i months
\* after the current month, on every date
C9_ConsecutiveMonths ==
  Rendered =>
    \A index \in 1..12 :
      memo.monthlyForecast[index].label =
        <<today.y + ((today.m + (index - 1)) \div 12), (today.m + (index - 1)) % 12>>

\* C10: the default total a render uses is 0 when no alias is present and
\* the carried value when one alias carries it, whichever alias that is, and
\* it is the visibleFixedTotal of an empty category list
C10_DefaultTotalNormalized ==
  Rendered =>
    LET s == summary[1]
        carriers == {f \in {"effectiveFixedExpenseTotal", "fixedExpenseTotal",
                            "fixedExpensesTotal"} : s[f].t = "number"}
        default == memo.fixedDeps[2]
    IN /\ carriers = {} => default = Num(0)
       /\ Cardinality(carriers) = 1 => \A f \in carriers : default = s[f]
       /\ Len(CurrentCategories) = 0 => memo.visibleFixedTotal = default

\* only the last alias carries 150 and there are no categories: 150 is shown
C10_Witness ==
  /\ Rendered
  /\ Len(CurrentCategories) = 0
  /\ summary[1].effectiveFixedExpenseTotal = Null
  /\ summary[1].fixedExpenseTotal = Undef
  /\ summary[1].fixedExpensesTotal = Num(150)
  /\ memo.visibleFixedTotal = Num(150)

\* C11: the memoized values of a settled render are what a fresh
\* computation from the current category totals, hidden list, income,
\* default total and freeAfterFixed gives
C11_MemoTransparent ==
  Rendered =>
    LET s == summary[1]
        freshVisible ==
          VisibleCategoryTotals(CurrentCategories, HiddenCategorySet(hiddenCategories))
        freshFixed ==
          VisibleFixedTotal(Len(CurrentCategories), freshVisible, DefaultFixedTotal(s))
        freshFree ==
          VisibleFreeAfterFixed(Len(CurrentCategories), ActiveMonthlyNetIncome(s),
                                s.freeAfterFixed, freshFixed)
    IN /\ memo.hiddenCategorySet = HiddenCategorySet(hiddenCategories)
       /\ memo.visibleCategoryTotals = freshVisible
       /\ memo.visibleFixedTotal = freshFixed
       /\ memo.visibleFreeAfterFixed = freshFree

\* a second summary with the same categories and another freeAfterFixed was
\* rendered with A hidden: the hidden set came from the cache, the
\* free-after-fixed figure was computed again
C11_Witness ==
  /\ Rendered
  /\ pendingFetch = 0
  /\ hiddenCategories = <<"A">>
  /\ "hiddenCategorySet" \in memo.reused
  /\ "visibleFreeAfterFixed" \notin memo.reused
  /\ memo.visibleCategoryTotals = <<[category |-> "B", total |-> Num(50)]>>
  /\ memo.visibleFreeAfterFixed = Num(200)

\* React runs every render a setter scheduled and every effect a commit
\* scheduled
FairSpec == Spec /\ WF_vars(Render) /\ WF_vars(Effects)

\* C12: the render/effect cycle always comes to rest again: a state with no
\* render scheduled and no effect pending recurs for ever
C12_Quiescent == []<>(pc = "idle" /\ ~needRender)

\* C13: once the effects of the last render have run and nothing is
\* scheduled, every slice of the chart is visible exactly when its label is
\* not in the hidden list
C13_ChartInStep ==
  (Rendered /\ pc = "idle" /\ chart.exists) =>
    \A index \in 1..Len(chart.labels) :
      (index \notin chart.hiddenIndices) =
        (chart.labels[index] \notin SeqToSet(hiddenCategories))

\* B was hidden by a click on the second legend item and a summary that
\* lists B first arrived: the first slice is the hidden one
C13_Witness ==
  /\ Rendered
  /\ pc = "idle"
  /\ chart.exists
  /\ pendingFetch = 0
  /\ chart.labels = <<"B", "A">>
  /\ hiddenCategories = <<"B">>
  /\ chart.hiddenIndices = {1}

\* an income field holds text that is not empty and not a finite,
\* non-negative number
EnteredInvalid ==
  \E i \in 1..Len(ownerInputs) :
    /\ ownerInputs[i].value # ""
    /\ LET n == NumberOf(ownerInputs[i].value)
       IN n.kind # "finite" \/ n.v < 0

\* C14: every updateSettings call of handleSaveOwners carries only finite,
\* non-negative incomes; a save with an invalid entered income makes no call,
\* keeps ownerInputs, sets ownerError and shows no success status; and
\* isSavingOwners is false whenever no save is in flight
C14_SaveOwnersValidated ==
  /\ [](/\ request # <<>> =>
             \A i \in 1..Len(request[1]) :
               /\ request[1][i].monthlyNetIncome.kind = "finite"
               /\ request[1][i].monthlyNetIncome.v >= 0
        /\ request = <<>> => ~isSavingOwners)
  /\ [][(SaveOwners /\ EnteredInvalid) =>
          /\ request = <<>> /\ request' = <<>>
          /\ ownerInputs' = ownerInputs
          /\ ownerError' # NoError
          /\ ownerStatus' = ""
          /\ ~isSavingOwners']_vars

\* Kari's 1200 and Ola's -5 were entered and saved: Ola's amount is
\* reported, nothing was sent
C14_Witness ==
  /\ ownerInputs = <<[name |-> "Kari", value |-> "1200"], [name |-> "Ola", value |-> "-5"]>>
  /\ ownerError = Message("validation", "Ola")
  /\ ownerStatus = ""
  /\ request = <<>>
  /\ ~isSavingOwners

====
